---- MODULE Spec2Model ----
\* Model of the expression pipeline of src/src/lib.rs:
\*   Expression::new -> tokenize -> to_post -> (stored postfix) -> evaluate.
\* Characters are one-character strings, a &str is a sequence of them.
\* f64 values are kept in sign/magnitude form as exact fractions together with
\* the IEEE-754 special values (signed zero, signed infinity, NaN); rounding of
\* inexact results is not represented.
EXTENDS Integers, Sequences, FiniteSets, TLC

\* ---------------------------------------------------------------- bounds
MaxLen == 4
MaxDigit == 2
MaxWF == 7
MaxArb == 4

\* ---------------------------------------------------------------- tokens
Number(n) == [kind |-> "Number", val |-> n]
Plus == [kind |-> "Plus", val |-> 0]
Min == [kind |-> "Min", val |-> 0]
Prod == [kind |-> "Prod", val |-> 0]
Dev == [kind |-> "Dev", val |-> 0]
Left == [kind |-> "Left", val |-> 0]
Right == [kind |-> "Right", val |-> 0]

\* ---------------------------------------------------------------- f64
F(sg, nm, dn) == [s |-> sg, n |-> nm, d |-> dn]
NaN == F(1, 0, 0)

RECURSIVE GCD(_, _)
GCD(a, b) == IF b = 0 THEN a ELSE GCD(b, a % b)

Norm(sg, nm, dn) ==
  IF nm = 0 /\ dn = 0 THEN NaN
  ELSE LET g == GCD(nm, dn) IN F(sg, nm \div g, dn \div g)

\* n.clone() as f64
FromInt(n) == F(1, n, 1)

FNeg(x) == IF x = NaN THEN NaN ELSE F(0 - x.s, x.n, x.d)

FMul(x, y) == Norm(x.s * y.s, x.n * y.n, x.d * y.d)

FDiv(x, y) == Norm(x.s * y.s, x.n * y.d, x.d * y.n)

FAdd(x, y) ==
  IF x = NaN \/ y = NaN THEN NaN
  ELSE IF x.d = 0 /\ y.d = 0 THEN (IF x.s = y.s THEN x ELSE NaN)
  ELSE IF x.d = 0 THEN x
  ELSE IF y.d = 0 THEN y
  ELSE LET num == x.s * x.n * y.d + y.s * y.n * x.d
           den == x.d * y.d
       IN IF num = 0
          THEN F(IF x.s = -1 /\ y.s = -1 THEN -1 ELSE 1, 0, 1)
          ELSE IF num > 0 THEN Norm(1, num, den) ELSE Norm(-1, 0 - num, den)

FSub(x, y) == FAdd(x, FNeg(y))

\* ---------------------------------------------------------------- tokenize
DigitStr == <<"0", "1", "2", "3", "4", "5", "6", "7", "8", "9">>

IsDigit(ch) == \E v \in 1..10 : DigitStr[v] = ch

DigitVal(ch) == (CHOOSE v \in 1..10 : DigitStr[v] = ch) - 1

\* iter.peek(): the character at position p, "" for None
Peek(e, p) == IF p <= Len(e) THEN e[p] ELSE ""

\* inner loop of the digit arm: index of the last digit of the run starting at p
RECURSIVE RunEnd(_, _)
RunEnd(e, p) == IF IsDigit(Peek(e, p + 1)) THEN RunEnd(e, p + 1) ELSE p

\* u64::MAX, digit by digit
U64MaxDigits == <<1, 8, 4, 4, 6, 7, 4, 4, 0, 7, 3, 7, 0, 9, 5, 5, 1, 6, 1, 5>>

RECURSIVE StripZeros(_)
StripZeros(run) ==
  IF Len(run) > 1 /\ run[1] = "0" THEN StripZeros(Tail(run)) ELSE run

\* curr_number.parse::<u64>() is Err exactly when the value exceeds u64::MAX
ParseOverflows(run) ==
  LET r == StripZeros(run) IN
    \/ Len(r) > Len(U64MaxDigits)
    \/ /\ Len(r) = Len(U64MaxDigits)
       /\ \E i \in 1..Len(r) :
            /\ DigitVal(r[i]) > U64MaxDigits[i]
            /\ \A j \in 1..(i - 1) : DigitVal(r[j]) = U64MaxDigits[j]

RECURSIVE ParseU64(_)
ParseU64(run) ==
  IF run = <<>> THEN 0
  ELSE 10 * ParseU64(SubSeq(run, 1, Len(run) - 1)) + DigitVal(run[Len(run)])

\* variant: the lookahead skips one character too many
NeedsProdPeeksTooFar(e, p) == Peek(e, p + 1) = "("

\* "check if next char needs to be a multiplication"
NeedsProd(e, p) == Peek(e, p) = "("

\* variant: the rewrite is applied only when an operand precedes the '-'
MultAfterOperandOnly(e, p) == p > 2 /\ Peek(e, p) = "("

\* "check if it is a multiplication with -1"
Mult(e, p) == Peek(e, p) = "("

\* the tokens pushed for '-' before '(' : ...+(0-1)*
MinusOne == <<Plus, Left, Number(0), Min, Number(1), Right, Prod>>

Outcome(p, toks, msg) == [pos |-> p, tokens |-> toks, panic |-> msg]

\* one iteration of `while let Some(ch) = iter.next()`; p is the index of ch
TokenizeChar(e, p, toks) ==
  LET ch == e[p] IN
    IF IsDigit(ch) THEN
      LET last == RunEnd(e, p)
          run == SubSeq(e, p, last)
      IN IF ParseOverflows(run) THEN Outcome(last + 1, toks, "ParseIntError")
         ELSE Outcome(last + 1,
                      Append(toks, Number(ParseU64(run)))
                        \o (IF NeedsProd(e, last + 1) THEN <<Prod>> ELSE <<>>),
                      "")
    ELSE IF ch = "*" THEN Outcome(p + 1, Append(toks, Prod), "")
    ELSE IF ch = "/" THEN Outcome(p + 1, Append(toks, Dev), "")
    ELSE IF ch = "+" THEN Outcome(p + 1, Append(toks, Plus), "")
    ELSE IF ch = "-" THEN
      (IF ~Mult(e, p + 1) THEN Outcome(p + 1, Append(toks, Min), "")
       ELSE Outcome(p + 1, toks \o MinusOne, ""))
    ELSE IF ch = "(" THEN Outcome(p + 1, Append(toks, Left), "")
    ELSE IF ch = ")" THEN Outcome(p + 1, Append(toks, Right), "")
    ELSE Outcome(p + 1, toks, "InvalidToken")

\* the whole of tokenize, for inputs on which it does not panic
RECURSIVE TokenizeFrom(_, _, _)
TokenizeFrom(e, p, toks) ==
  IF p > Len(e) THEN toks
  ELSE LET o == TokenizeChar(e, p, toks) IN TokenizeFrom(e, o.pos, o.tokens)

tokenize(e) == TokenizeFrom(e, 1, <<>>)

\* ---------------------------------------------------------------- to_post
Operators == {"Plus", "Min", "Prod", "Dev"}

\* variant: all four operators share one precedence
precedenceFlat(t) == IF t.kind \in {"Prod", "Dev", "Plus", "Min"} THEN 0 ELSE -1

\* Token::precedence; -1 stands for the panic of the catch-all arm
precedence(t) ==
  IF t.kind \in {"Prod", "Dev"} THEN 1
  ELSE IF t.kind \in {"Plus", "Min"} THEN 0
  ELSE -1

\* variant: the LeftParen check is missing
TopIsLeftNever(top) == FALSE

\* `if *top == Token::Left { break; }`
TopIsLeft(top) == top = Left

\* variant: strict comparison
PopsTopStrict(top, operator) == precedence(top) > precedence(operator)

\* `Token::precedence(top) >= Token::precedence(&operator)`
PopsTop(top, operator) == precedence(top) >= precedence(operator)

Front(s) == SubSeq(s, 1, Len(s) - 1)

Last(s) == s[Len(s)]

PostOutcome(toks, ops, msg) == [tokens |-> toks, operator_stack |-> ops, panic |-> msg]

\* the Token::Right arm: pop to the output until a Left is popped
RECURSIVE PopToLeft(_, _)
PopToLeft(toks, ops) ==
  IF ops = <<>> THEN PostOutcome(toks, ops, "")
  ELSE IF Last(ops) = Left THEN PostOutcome(toks, Front(ops), "")
  ELSE PopToLeft(Append(toks, Last(ops)), Front(ops))

\* the operator arm: pop while the top binds at least as tightly, then push
RECURSIVE PushOperator(_, _, _)
PushOperator(toks, ops, operator) ==
  IF ops = <<>> THEN PostOutcome(toks, Append(ops, operator), "")
  ELSE IF TopIsLeft(Last(ops)) THEN PostOutcome(toks, Append(ops, operator), "")
  ELSE IF precedence(Last(ops)) = -1 \/ precedence(operator) = -1
    THEN PostOutcome(toks, ops, "Precedence")
  ELSE IF PopsTop(Last(ops), operator)
    THEN PushOperator(Append(toks, Last(ops)), Front(ops), operator)
  ELSE PostOutcome(toks, Append(ops, operator), "")

\* one iteration of `for token in original.into_iter()`
ToPostToken(token, toks, ops) ==
  IF token.kind = "Number" THEN PostOutcome(Append(toks, token), ops, "")
  ELSE IF token.kind = "Left" THEN PostOutcome(toks, Append(ops, token), "")
  ELSE IF token.kind = "Right" THEN PopToLeft(toks, ops)
  ELSE PushOperator(toks, ops, token)

\* "empty the operator_stack"
RECURSIVE EmptyStack(_, _)
EmptyStack(toks, ops) ==
  IF ops = <<>> THEN toks ELSE EmptyStack(Append(toks, Last(ops)), Front(ops))

\* ---------------------------------------------------------------- evaluate
\* variant: the operands of the subtraction and the division are swapped
ApplyOperatorSwapped(operator, b, a) ==
  IF operator.kind = "Prod" THEN FMul(b, a)
  ELSE IF operator.kind = "Dev" THEN FDiv(a, b)
  ELSE IF operator.kind = "Plus" THEN FAdd(b, a)
  ELSE FSub(a, b)

\* `match operator { ... }` on the popped a (first) and b (second)
ApplyOperator(operator, b, a) ==
  IF operator.kind = "Prod" THEN FMul(b, a)
  ELSE IF operator.kind = "Dev" THEN FDiv(b, a)
  ELSE IF operator.kind = "Plus" THEN FAdd(b, a)
  ELSE FSub(b, a)

EvalOutcome(st, msg) == [stack |-> st, panic |-> msg]

\* one iteration of `for token in self.tokens.iter()`
EvaluateToken(token, st) ==
  IF token.kind = "Number" THEN EvalOutcome(Append(st, FromInt(token.val)), "")
  ELSE IF st = <<>> THEN EvalOutcome(st, "UnwrapNone")
  ELSE IF Front(st) = <<>> THEN EvalOutcome(Front(st), "UnwrapNone")
  ELSE LET a == Last(st)
           b == Last(Front(st))
           rest == Front(Front(st))
       IN IF token.kind \in Operators
          THEN EvalOutcome(Append(rest, ApplyOperator(token, b, a)), "")
          ELSE EvalOutcome(rest, "NotAnOperator")

\* ---------------------------------------------------------------- inputs
OperatorChars == {"+", "-", "*", "/", "(", ")"}

Alphabet == {DigitStr[v + 1] : v \in 0..MaxDigit} \cup OperatorChars

SeqsUpTo(S, n) == UNION {[1..k -> S] : k \in 0..n}

\* the expressions of the tests and of the documented behaviour, plus one
\* with spaces and one with an unsupported character
Samples ==
    { <<"1", "2", "-", "(", "1", "3", "+", "7", ")", "*", "3">>,
      <<"1", "3", "3", "+", "(", "1", "5", "-", "(", "1", "2", "5", "/", "3", ")", "+", "1", ")">>,
      <<"1", "2", "5", "-", "(", "1", "4", "5", "*", "9", "+", "3", "-", "2", "(", "1", "2", "/", "3", ")", ")", "-", "2">>,
      <<"8", "-", "3", "-", "2">>,
      <<"2", "(", "3", "+", "4", ")">>,
      <<"1", "/", "0">>,
      <<"1", "2", "+", "+">>,
      <<"(", "1", "2">>,
      <<"1", "2", ")">>,
      <<"(", "2", ")", "(", "3", ")">>,
      <<"-", "(", "3", ")">>,
      <<"-", "5">>,
      <<"(", ")">>,
      <<"1", " ", "+", " ", "2">>,
      <<"2", "a", "3">> }

Inputs == SeqsUpTo(Alphabet, MaxLen) \cup Samples

TokenSet == {Number(v) : v \in 0..MaxDigit} \cup {Plus, Min, Prod, Dev, Left, Right}

\* operand/operator alternating, balanced token sequences of length n
RECURSIVE WellFormedOfLen(_)
WellFormedOfLen(n) ==
  IF n = 1 THEN {<<Number(v)>> : v \in 0..MaxDigit}
  ELSE IF n < 1 \/ n % 2 = 0 THEN {}
  ELSE {<<Left>> \o t \o <<Right>> : t \in WellFormedOfLen(n - 2)}
       \cup UNION { {l \o <<o>> \o r : l \in WellFormedOfLen(k),
                                        r \in WellFormedOfLen(n - 1 - k)}
                    : k \in 1..(n - 2), o \in {Plus, Min, Prod, Dev} }

\* token sequences handed to to_post directly
PostInputs ==
  UNION {WellFormedOfLen(n) : n \in 1..MaxWF}
    \cup SeqsUpTo(TokenSet, MaxArb)
    \cup {tokenize(e) : e \in {x \in Samples : \A i \in 1..Len(x) : x[i] \in Alphabet \cup {DigitStr[v] : v \in 1..10}}}

\* ---------------------------------------------------------------- state
VARIABLES input, expr, pc, pos, infix, ti, tokens, operator_stack, ei, stack, result, panic

vars == <<input, expr, pc, pos, infix, ti, tokens, operator_stack, ei, stack, result, panic>>

\* main hands a line to Expression::new
Init ==
  /\ input \in Inputs
  /\ expr = <<>>
  /\ pc = "new"
  /\ pos = 1
  /\ infix = <<>>
  /\ ti = 1
  /\ tokens = <<>>
  /\ operator_stack = <<>>
  /\ ei = 1
  /\ stack = <<>>
  /\ result = <<>>
  /\ panic = ""

\* a token vector handed to to_post
InitPost ==
  /\ input = <<>>
  /\ expr = <<>>
  /\ pc = "to_post"
  /\ pos = 1
  /\ infix \in PostInputs
  /\ ti = 1
  /\ tokens = <<>>
  /\ operator_stack = <<>>
  /\ ei = 1
  /\ stack = <<>>
  /\ result = <<>>
  /\ panic = ""

NotSpace(ch) == ch # " "

\* Expression::new: strip the spaces, then tokenize
New ==
  /\ pc = "new"
  /\ expr' = SelectSeq(input, NotSpace)
  /\ pc' = "tokenize"
  /\ UNCHANGED <<input, pos, infix, ti, tokens, operator_stack, ei, stack, result, panic>>

TokenizeStep ==
  /\ pc = "tokenize"
  /\ pos <= Len(expr)
  /\ LET o == TokenizeChar(expr, pos, infix) IN
       /\ pos' = o.pos
       /\ infix' = o.tokens
       /\ panic' = o.panic
       /\ pc' = IF o.panic = "" THEN "tokenize" ELSE "panic"
  /\ UNCHANGED <<input, expr, ti, tokens, operator_stack, ei, stack, result>>

TokenizeReturn ==
  /\ pc = "tokenize"
  /\ pos > Len(expr)
  /\ pc' = "to_post"
  /\ UNCHANGED <<input, expr, pos, infix, ti, tokens, operator_stack, ei, stack, result, panic>>

ToPostStep ==
  /\ pc = "to_post"
  /\ ti <= Len(infix)
  /\ LET o == ToPostToken(infix[ti], tokens, operator_stack) IN
       /\ tokens' = o.tokens
       /\ operator_stack' = o.operator_stack
       /\ panic' = o.panic
       /\ pc' = IF o.panic = "" THEN "to_post" ELSE "panic"
  /\ ti' = ti + 1
  /\ UNCHANGED <<input, expr, pos, infix, ei, stack, result>>

ToPostReturn ==
  /\ pc = "to_post"
  /\ ti > Len(infix)
  /\ tokens' = EmptyStack(tokens, operator_stack)
  /\ operator_stack' = <<>>
  /\ pc' = "evaluate"
  /\ UNCHANGED <<input, expr, pos, infix, ti, ei, stack, result, panic>>

EvaluateStep ==
  /\ pc = "evaluate"
  /\ ei <= Len(tokens)
  /\ LET o == EvaluateToken(tokens[ei], stack) IN
       /\ stack' = o.stack
       /\ panic' = o.panic
       /\ pc' = IF o.panic = "" THEN "evaluate" ELSE "panic"
  /\ ei' = ei + 1
  /\ UNCHANGED <<input, expr, pos, infix, ti, tokens, operator_stack, result>>

\* `return stack.pop().unwrap();`
EvaluateReturn ==
  /\ pc = "evaluate"
  /\ ei > Len(tokens)
  /\ IF stack = <<>>
       THEN /\ pc' = "panic"
            /\ panic' = "UnwrapNone"
            /\ UNCHANGED <<stack, result>>
       ELSE /\ pc' = "done"
            /\ result' = <<Last(stack)>>
            /\ stack' = Front(stack)
            /\ UNCHANGED panic
  /\ UNCHANGED <<input, expr, pos, infix, ti, tokens, operator_stack, ei>>

Next ==
  \/ New
  \/ TokenizeStep
  \/ TokenizeReturn
  \/ ToPostStep
  \/ ToPostReturn
  \/ EvaluateStep
  \/ EvaluateReturn

Spec == Init /\ [][Next]_vars

NextPost ==
  \/ ToPostStep
  \/ ToPostReturn
  \/ EvaluateStep
  \/ EvaluateReturn

SpecPost == InitPost /\ [][NextPost]_vars

TypeOK ==
  /\ pc \in {"new", "tokenize", "to_post", "evaluate", "done", "panic"}
  /\ panic \in {"", "ParseIntError", "InvalidToken", "Precedence", "UnwrapNone", "NotAnOperator"}
  /\ (pc = "panic") = (panic # "")
  /\ Len(result) = (IF pc = "done" THEN 1 ELSE 0)

\* ---------------------------------------------------------------- properties
AddOps == {"Plus", "Min"}

MulOps == {"Prod", "Dev"}

\* the f64 holding the integer z
IntVal(z) == IF z >= 0 THEN F(1, z, 1) ELSE F(-1, 0 - z, 1)

\* r is the f64 quotient of the naturals x and y
IsQuotient(r, x, y) ==
  IF y = 0 THEN r = (IF x = 0 THEN NaN ELSE F(1, 1, 0))
  ELSE r.s = 1 /\ r.d > 0 /\ r.n * y = x * r.d

\* left OP right, written out per operator
Binary(k, left, right) ==
  CASE k = "Plus" -> FAdd(left, right)
    [] k = "Min" -> FAdd(left, FNeg(right))
    [] k = "Prod" -> FMul(left, right)
    [] k = "Dev" -> FDiv(left, right)

C1_PairOrder ==
  (pc = "done" /\ Len(tokens) = 3 /\ tokens[1].kind = "Number"
     /\ tokens[2].kind = "Number" /\ tokens[3].kind \in Operators) =>
    LET x == tokens[1].val
        y == tokens[2].val
        r == result[1]
    IN CASE tokens[3].kind = "Min" -> r = IntVal(x - y)
         [] tokens[3].kind = "Plus" -> r = IntVal(x + y)
         [] tokens[3].kind = "Prod" -> r = IntVal(x * y)
         [] tokens[3].kind = "Dev" -> IsQuotient(r, x, y)

C1_StepOrder ==
  (pc = "evaluate" /\ pc' = "evaluate" /\ ei' = ei + 1
     /\ tokens[ei].kind \in Operators) =>
    /\ Len(stack) >= 2
    /\ stack' = Append(SubSeq(stack, 1, Len(stack) - 2),
                       Binary(tokens[ei].kind, stack[Len(stack) - 1], stack[Len(stack)]))

\* C1: every operator step of evaluate replaces the two topmost values by
\* (second popped) OP (first popped), so the postfix x y - yields x - y,
\* x y / yields x / y, x y + yields x + y and x y * yields x * y.
C1_OperandOrder == [](C1_PairOrder) /\ [][C1_StepOrder]_vars

C1_Witness ==
  /\ pc = "done"
  /\ tokens = <<Number(1), Number(2), Min>>
  /\ result = <<F(-1, 1, 1)>>

\* operands and binary operators alternate and the parentheses are balanced
RECURSIVE Alternates(_, _, _, _)
Alternates(t, i, depth, wantOperand) ==
  IF i > Len(t) THEN depth = 0 /\ ~wantOperand
  ELSE IF wantOperand
    THEN IF t[i].kind = "Number" THEN Alternates(t, i + 1, depth, FALSE)
         ELSE IF t[i].kind = "Left" THEN Alternates(t, i + 1, depth + 1, TRUE)
         ELSE FALSE
    ELSE IF t[i].kind \in Operators THEN Alternates(t, i + 1, depth, TRUE)
         ELSE IF t[i].kind = "Right" /\ depth > 0 THEN Alternates(t, i + 1, depth - 1, FALSE)
         ELSE FALSE

IsWellFormed(t) == Alternates(t, 1, 0, TRUE)

NestingAt(t, i) ==
  Cardinality({j \in 1..(i - 1) : t[j].kind = "Left"})
    - Cardinality({j \in 1..(i - 1) : t[j].kind = "Right"})

OuterOps(t, kinds) == {i \in 1..Len(t) : t[i].kind \in kinds /\ NestingAt(t, i) = 0}

Greatest(S) == CHOOSE i \in S : \A j \in S : j <= i

\* the value of a well-formed infix sequence under the usual rules: the
\* rightmost outermost + or - splits last, else the rightmost outermost * or /,
\* else the sequence is a number or a parenthesised expression
RECURSIVE InfixValue(_)
InfixValue(t) ==
  IF Len(t) = 1 THEN FromInt(t[1].val)
  ELSE LET add == OuterOps(t, AddOps)
           mul == OuterOps(t, MulOps)
           cut == IF add # {} THEN Greatest(add) ELSE Greatest(mul)
       IN IF add = {} /\ mul = {} THEN InfixValue(SubSeq(t, 2, Len(t) - 1))
          ELSE Binary(t[cut].kind, InfixValue(SubSeq(t, 1, cut - 1)),
                      InfixValue(SubSeq(t, cut + 1, Len(t))))

\* C2: for a well-formed, well-bracketed infix sequence the pipeline
\* to_post-then-evaluate does not panic and returns the value the infix
\* sequence has under the usual precedence and left-to-right grouping.
C2_PostfixEquivalent ==
  IsWellFormed(infix) =>
    /\ pc # "panic"
    /\ pc = "done" => result = <<InfixValue(infix)>>

C2_Witness ==
  /\ pc = "done"
  /\ infix = <<Left, Number(1), Plus, Number(2), Right, Prod, Number(2)>>
  /\ tokens = <<Number(1), Number(2), Plus, Number(2), Prod>>
  /\ result = <<IntVal(6)>>

\* C3 (as claimed): no well-bracketed input over digits, operators and
\* parentheses makes the pipeline panic.
C3_NoPanic ==
  (/\ \A i \in 1..Len(input) : IsDigit(input[i]) \/ input[i] \in OperatorChars
   /\ \A k \in 0..Len(input) :
        Cardinality({j \in 1..k : input[j] = "("}) >= Cardinality({j \in 1..k : input[j] = ")"})
   /\ Cardinality({j \in 1..Len(input) : input[j] = "("})
        = Cardinality({j \in 1..Len(input) : input[j] = ")"}))
    => pc # "panic"

C4_MinusStep ==
  (pc = "tokenize" /\ pos <= Len(expr) /\ expr[pos] = "-") =>
    /\ pos' = pos + 1
    /\ pc' = "tokenize"
    /\ IF pos < Len(expr) /\ expr[pos + 1] = "("
         THEN infix' = infix \o <<Plus, Left, Number(0), Min, Number(1), Right, Prod>>
         ELSE infix' = infix \o <<Min>>

C4_ParenStep ==
  (pc = "tokenize" /\ pos <= Len(expr) /\ expr[pos] = "(") =>
    pos' = pos + 1 /\ infix' = infix \o <<Left>>

\* C4: a '-' directly before '(' emits Plus, Left, Number(0), Min, Number(1),
\* Right, Multiply and leaves the '(' to be tokenized as a LeftParen; any
\* other '-' emits one Minus; at every position, the first included.
C4_MinusRule == [][C4_MinusStep /\ C4_ParenStep]_vars

C4_Witness ==
  /\ pc = "to_post"
  /\ Len(expr) >= 3
  /\ expr[1] = "-" /\ expr[2] = "(" /\ expr[3] = "-"
  /\ infix = <<Plus, Left, Number(0), Min, Number(1), Right, Prod, Left, Min>>

RECURSIVE RunStart(_, _)
RunStart(e, i) == IF i > 1 /\ IsDigit(e[i - 1]) THEN RunStart(e, i - 1) ELSE i

\* the tokens character i accounts for; a digit run is accounted for by its
\* last digit
EmittedAt(e, i) ==
  LET ch == e[i]
      next == IF i < Len(e) THEN e[i + 1] ELSE ""
  IN IF IsDigit(ch)
       THEN IF IsDigit(next) THEN <<>>
            ELSE <<Number(ParseU64(SubSeq(e, RunStart(e, i), i)))>>
                   \o (IF next = "(" THEN <<Prod>> ELSE <<>>)
     ELSE IF ch = "-"
       THEN (IF next = "(" THEN <<Plus, Left, Number(0), Min, Number(1), Right, Prod>>
             ELSE <<Min>>)
     ELSE IF ch = "+" THEN <<Plus>>
     ELSE IF ch = "*" THEN <<Prod>>
     ELSE IF ch = "/" THEN <<Dev>>
     ELSE IF ch = "(" THEN <<Left>>
     ELSE <<Right>>

RECURSIVE EmittedFrom(_, _)
EmittedFrom(e, i) == IF i > Len(e) THEN <<>> ELSE EmittedAt(e, i) \o EmittedFrom(e, i + 1)

\* C5: the token sequence tokenize returns has a synthetic Multiply exactly
\* after the Number of a digit run that is directly followed by '(' (and in
\* the '-(' rewrite), nowhere else; ')' directly followed by '(' gives
\* RightParen, LeftParen with nothing between.
C5_ImplicitProd ==
  /\ (pc = "to_post") => infix = EmittedFrom(expr, 1)
  /\ (pc = "to_post" /\ expr = <<"(", "2", ")", "(", "3", ")">>) =>
       infix = <<Left, Number(2), Right, Left, Number(3), Right>>

C5_Witness ==
  /\ pc = "to_post"
  /\ expr = <<"2", "(", "3", "+", "4", ")">>
  /\ infix = <<Number(2), Prod, Left, Number(3), Plus, Number(4), Right>>

BalancedTokens(t) ==
  /\ \A k \in 0..Len(t) :
       Cardinality({j \in 1..k : t[j].kind = "Left"}) >= Cardinality({j \in 1..k : t[j].kind = "Right"})
  /\ Cardinality({j \in 1..Len(t) : t[j].kind = "Left"})
       = Cardinality({j \in 1..Len(t) : t[j].kind = "Right"})

\* C6 (as claimed): to_post never returns a postfix sequence for a token
\* sequence with unbalanced parentheses.
C6_UnbalancedRejected == (pc \in {"evaluate", "done"}) => BalancedTokens(infix)

\* C7 (as claimed): evaluate returns a number only if the value stack held
\* exactly one value after the last postfix token.
C7_ExactlyOneValue == (pc = "done") => stack = <<>>

\* C8 (as claimed): the postfix sequence to_post returns holds no LeftParen
\* and no RightParen.
C8_NoParenInPostfix ==
  (pc \in {"evaluate", "done"}) =>
    \A i \in 1..Len(tokens) : tokens[i].kind \notin {"Left", "Right"}

SameRank(k1, k2) == (k1 \in AddOps /\ k2 \in AddOps) \/ (k1 \in MulOps /\ k2 \in MulOps)

BindsLooser(k1, k2) == k1 \in AddOps /\ k2 \in MulOps

C9_Flat ==
  (/\ pc \in {"evaluate", "done"}
   /\ Len(infix) = 5
   /\ infix[1].kind = "Number" /\ infix[3].kind = "Number" /\ infix[5].kind = "Number"
   /\ infix[2].kind \in Operators /\ infix[4].kind \in Operators
   /\ SameRank(infix[2].kind, infix[4].kind)) =>
    tokens = <<infix[1], infix[3], infix[2], infix[5], infix[4]>>

C9_Example ==
  (pc = "done" /\ infix = <<Number(8), Min, Number(3), Min, Number(2)>>) =>
    result = <<IntVal(3)>>

C9_PushStep ==
  (pc = "to_post" /\ ti <= Len(infix) /\ infix[ti].kind \in Operators) =>
    LET ops == operator_stack'
        n == Len(ops)
    IN /\ n >= 1
       /\ ops[n] = infix[ti]
       /\ n > 1 => (ops[n - 1] = Left \/ BindsLooser(ops[n - 1].kind, ops[n].kind))

\* C9: an arriving operator is pushed only after every operator above the
\* nearest LeftParen that binds at least as tightly has been popped, so
\* a op1 b op2 c with op1, op2 of equal precedence becomes a b op1 c op2,
\* and 8-3-2 evaluates to 3.
C9_LeftAssociative == [](C9_Flat /\ C9_Example) /\ [][C9_PushStep]_vars

C9_Witness ==
  /\ pc = "done"
  /\ infix = <<Number(8), Min, Number(3), Min, Number(2)>>
  /\ tokens = <<Number(8), Number(3), Min, Number(2), Min>>
  /\ result = <<IntVal(3)>>

\* C10: on the operator stack of to_post, between LeftParen markers, the
\* precedences increase strictly from bottom to top: a segment holds at most
\* two operators, a lower Plus/Minus and an upper Multiply/Divide; the stack
\* holds nothing but operators and LeftParens and the precedence lookup never
\* panics.
C10_StackSegments ==
  /\ panic # "Precedence"
  /\ \A i \in 1..Len(operator_stack) : operator_stack[i].kind \in Operators \cup {"Left"}
  /\ \A i \in 1..(Len(operator_stack) - 1) :
       (operator_stack[i].kind # "Left" /\ operator_stack[i + 1].kind # "Left") =>
         /\ operator_stack[i].kind \in AddOps
         /\ operator_stack[i + 1].kind \in MulOps

C10_Witness ==
  /\ pc = "to_post"
  /\ \E i \in 1..(Len(operator_stack) - 4) :
       /\ operator_stack[i].kind \in AddOps
       /\ operator_stack[i + 1].kind \in MulOps
       /\ operator_stack[i + 2].kind = "Left"
       /\ operator_stack[i + 3].kind \in AddOps
       /\ operator_stack[i + 4].kind \in MulOps

====
